---- MODULE Spec2Model ----
(***************************************************************************)
(* The FastAPI backend of src/main.py as a state machine: two credential   *)
(* tables (dealer, shopkeeper), the per-request database session of        *)
(* get_db, the four login/signup handlers and the /inventory/predict       *)
(* handler with preprocess_data of src/utils/data_preprocessing.py.        *)
(*                                                                         *)
(* A request is a small process: it is received (its session is opened by  *)
(* get_db), its handler runs in the steps between which another request    *)
(* can touch the store (requests served by different workers share only    *)
(* the database), and the finally block of get_db closes the session.      *)
(***************************************************************************)
EXTENDS Integers, Sequences, FiniteSets, TLC

\* Number of requests a behaviour issues.
MaxReqs == 2

Reqs == 1..MaxReqs

Roles == {"dealer", "shopkeeper"}

Emails == {"a@shop.io", "b@shop.io"}

Profiles == {"profile"}

(***************************************************************************)
(* A password is kept as the part bcrypt reads and the part it does not:   *)
(* head is the first 72 bytes of the UTF-8 encoding, tail the bytes after  *)
(* them ("" when the password has at most 72 bytes).                       *)
(***************************************************************************)
Passwords ==
    { [head |-> "hunter2", tail |-> ""],
      [head |-> "seventy-two-bytes", tail |-> ""],
      [head |-> "seventy-two-bytes", tail |-> "-and-more"] }

TooLong(pw) == pw.tail # ""

(***************************************************************************)
(* The libraries the handlers call are not pinned by the source, and two   *)
(* of their behaviours differ between releases:                            *)
(*   bcrypt : "truncate" (before 5.0: bytes after the 72nd are ignored) or *)
(*            "reject"   (5.0 on: hashpw/checkpw raise ValueError)         *)
(*   pandas : "compat"   (before 0.25: pandas.compat.StringIO exists) or   *)
(*            "nocompat" (0.25 on: the attribute lookup raises)            *)
(* A behaviour runs on one build, chosen in Init.                          *)
(***************************************************************************)
Builds == [bcrypt : {"truncate", "reject"}, pandas : {"compat", "nocompat"}]

VARIABLES build, tables, reqs, models, succeeded

vars == <<build, tables, reqs, models, succeeded>>

----------------------------------------------------------------------------
(* bcrypt *)

InvalidSalt == <<"", 0>>

\* gensalt() draws 16 random bytes: every call returns a salt no other call
\* returns, named here by the row the salt ends in (a table and a row number).
gensalt(role, n) == <<role, n>>

\* hashpw(password, salt) keeps the salt in the hash.
hashpw(pw, salt) == [salt |-> salt, key |-> pw.head]

\* hashpw raises ValueError on a password of more than 72 bytes (bcrypt >= 5.0).
hashpw_raises(b, pw) == b.bcrypt = "reject" /\ TooLong(pw)

\* checkpw raises ValueError("Invalid salt") on a stored value that is no
\* bcrypt hash, and as hashpw does on a password of more than 72 bytes.
checkpw_raises(b, pw, hashed) ==
    \/ hashed.salt = InvalidSalt
    \/ hashpw_raises(b, pw)

\* checkpw(password, hashed): re-hash with the stored salt and compare.
checkpw(pw, hashed) == hashpw(pw, hashed.salt) = hashed

----------------------------------------------------------------------------
(* The credential store: one table per role, rows in insertion order. *)

\* Every handler reading and writing the Dealer table.
dealer_table(role) == "dealer"

\* The table a handler queries and inserts into: Dealer in the dealer
\* handlers, Shopkeeper in the shopkeeper handlers.
TableOf(role) == role

\* db.query(T).filter(T.email == email): the rows of the role's table that match.
Matches(role, email) ==
    { i \in 1..Len(tables[TableOf(role)]) : tables[TableOf(role)][i].email = email }

\* The existence check run against the other role's table.
exists_in_other_table(role, email) ==
    \E o \in Roles \ {role} : Matches(o, email) # {}

\* if db.query(...).first(): the existence check of the signup handlers.
exists_by_email(role, email) == Matches(role, email) # {}

\* The identifier the store gives a new row: rows are never deleted, so the
\* next autoincrement value is the row count plus one.
next_id(role) == Len(tables[TableOf(role)]) + 1

\* db.add(new); db.commit(): one row appended to the role's table.
db_add(role, rec) ==
    [tables EXCEPT ![TableOf(role)] = Append(@, rec)]

----------------------------------------------------------------------------
(* The uploaded dataset and preprocess_data *)

Required ==
    {"Historical_Sales", "Promotion", "Day_of_Week", "Month", "Product_ID", "Demand"}

features == Required \ {"Demand"}

\* A cell of a numeric column that holds text.
Text == -1

Row(hs, pid, demand) ==
    [Historical_Sales |-> hs, Promotion |-> 0, Day_of_Week |-> 1, Month |-> 1,
     Product_ID |-> pid, Demand |-> demand]

\* The uploads a request can carry: utf8 says whether the bytes decode,
\* header is the CSV's header line, rows its data rows.
Uploads ==
    { [utf8 |-> FALSE, header |-> {}, rows |-> <<>>],
      [utf8 |-> TRUE, header |-> features, rows |-> <<Row(100, "A", 50)>>],
      [utf8 |-> TRUE, header |-> Required, rows |-> <<>>],
      [utf8 |-> TRUE, header |-> Required, rows |-> <<Row(100, "A", 50)>>],
      [utf8 |-> TRUE, header |-> Required,
       rows |-> <<Row(100, "B", 50), Row(80, "A", 30)>>],
      [utf8 |-> TRUE, header |-> Required, rows |-> <<Row(Text, "A", 50)>>] }

NoUpload == [utf8 |-> FALSE, header |-> {}, rows |-> <<>>]

RECURSIVE SumOf(_, _)
SumOf(col, rows) ==
    IF rows = <<>> THEN 0 ELSE Head(rows)[col] + SumOf(col, Tail(rows))

RECURSIVE Gcd(_, _)
Gcd(a, b) == IF b = 0 THEN a ELSE Gcd(b, a % b)

\* The fraction num/den in lowest terms (den > 0, num >= 0).
Frac(num, den) ==
    LET g == Gcd(num, den) IN [num |-> num \div g, den |-> den \div g]

Zero == [num |-> 0, den |-> 1]

\* contents.decode('utf-8'), pd.compat.StringIO(...), pd.read_csv(...): the
\* exception raised, or "" and the table read.
read_csv_raises(b, upload) ==
    IF ~upload.utf8 THEN "UnicodeDecodeError"
    ELSE IF b.pandas = "nocompat" THEN "AttributeError"
    ELSE IF upload.header = {} THEN "EmptyDataError"
    ELSE ""

read_csv(upload) == [columns |-> upload.header, rows |-> upload.rows]

\* pd.get_dummies(X, columns=['Product_ID'], drop_first=True): one indicator
\* column per distinct Product_ID but the first in sorted order ("A" < "B").
dummies(df) ==
    LET seen == { df.rows[i].Product_ID : i \in 1..Len(df.rows) } IN
    IF seen = {"A", "B"} THEN {"Product_ID_B"} ELSE {}

NumericFeatures == features \ {"Product_ID"}

\* The value of a column of the encoded table in a row.
Cell(row, col) ==
    IF col = "Product_ID_B" THEN (IF row.Product_ID = "B" THEN 1 ELSE 0) ELSE row[col]

\* preprocess_data raises: a missing column (df[features], df['Demand']), no
\* sample or a text cell for the scaler.
preprocess_raises(df) ==
    IF ~(features \subseteq df.columns) \/ "Demand" \notin df.columns
    THEN "KeyError"
    ELSE IF df.rows = <<>>
         \/ \E i \in 1..Len(df.rows), c \in NumericFeatures : df.rows[i][c] = Text
    THEN "ValueError"
    ELSE ""

\* StandardScaler().fit: per column the sample count, the sum and the sum of
\* squares (mean_ = sum/n, var_ = sumsq/n - mean_^2).
scaler_fit(cols, rows) ==
    [c \in cols |->
        LET v == [i \in 1..Len(rows) |-> [x |-> Cell(rows[i], c)]] IN
        [n |-> Len(rows),
         sum |-> SumOf("x", v),
         sumsq |-> SumOf("x", [i \in 1..Len(rows) |-> [x |-> v[i].x * v[i].x]])]]

\* transform: (x - mean_) / sqrt(var_) kept exactly as the pair
\* num = n*x - sum, var = n*sumsq - sum^2, standing for num / sqrt(var)
\* (a column of variance 0 is divided by 1 and is all 0).
scaler_transform(scaler, cols, rows) ==
    [i \in 1..Len(rows) |->
        [c \in cols |->
            [num |-> scaler[c].n * Cell(rows[i], c) - scaler[c].sum,
             var |-> scaler[c].n * scaler[c].sumsq - scaler[c].sum * scaler[c].sum]]]

\* preprocess_data(df): X_scaled, y and the scaler, all made in the call.
preprocess_data(df) ==
    LET cols == NumericFeatures \cup dummies(df)
        scaler == scaler_fit(cols, df.rows) IN
    [X |-> scaler_transform(scaler, cols, df.rows),
     y |-> [i \in 1..Len(df.rows) |-> df.rows[i].Demand],
     scaler |-> scaler]

----------------------------------------------------------------------------
(* DemandForecastModel: ordinary least squares with an intercept *)

Unfitted == [fitted |-> FALSE, intercept |-> Zero]

\* One model object at module level, used by every request.
module_level_model(r) == 1

\* DemandForecastModel(): a new object on the heap, one per call.
DemandForecastModel(r) == r

\* train(X, y): the columns of X have mean 0, so the fitted intercept is the
\* mean of y; the coefficients are not kept.
train(X, y) ==
    [fitted |-> TRUE,
     intercept |-> Frac(SumOf("y", [i \in 1..Len(y) |-> [y |-> y[i]]]), Len(y))]

\* predict(X): one prediction per row of X. Over columns of mean 0 the
\* predictions average to the intercept whatever the coefficients are.
predict(m, X) == [size |-> Len(X), mean |-> m.intercept]

----------------------------------------------------------------------------
(* Requests and responses *)

NoResp == [status |-> 0, text |-> "", id |-> 0, predictions |-> <<>>]

Resp(status, text, id, predictions) ==
    [status |-> status, text |-> text, id |-> id, predictions |-> predictions]

InvalidCredentials == Resp(401, "Invalid credentials", 0, <<>>)

EmailRegistered == Resp(400, "Email already registered", 0, <<>>)

\* An exception no handler catches: the framework answers 500.
ServerError == Resp(500, "Internal Server Error", 0, <<>>)

NoPassword == [head |-> "", tail |-> ""]

IdleReq ==
    [pc |-> "idle", op |-> "", role |-> "", email |-> "", password |-> NoPassword,
     profile |-> "", upload |-> NoUpload, X |-> <<>>, model |-> 0,
     session |-> "none", closes |-> 0, seen |-> 0, prior |-> {},
     exit |-> "", resp |-> NoResp]

\* get_db up to its yield: db = SessionLocal().
get_db_open(q) == [q EXCEPT !.session = "open"]

\* db.close() after the yield without try/finally: reached on return only.
closes_on_return_only(exit) == exit = "return"

\* get_db after its yield: the finally block runs db.close() however the
\* handler left (exit is "return", "http" or "uncaught").
get_db_closes(exit) == TRUE

\* What is left of a request once it is over: how its handler was left and
\* its session, closed or not.
Over(q) ==
    [IdleReq EXCEPT !.pc = "done", !.exit = q.exit,
                    !.session = q.session, !.closes = q.closes]

\* The record of a signup that returned 200: what it was sent, the identifier
\* it returned and the row count its existence check read.
Signed(q) ==
    [role |-> q.role, email |-> q.email, password |-> q.password,
     id |-> q.resp.id, seen |-> q.seen]

\* Requests are numbered in their order of arrival.
Arrived(n) == IF n = 0 THEN TRUE ELSE reqs[n].pc # "idle"

\* The handler is left: by return, by HTTPException ("http") or by an
\* exception nothing catches ("uncaught").
Finish(q, exit, resp) == [q EXCEPT !.pc = "finally", !.exit = exit, !.resp = resp]

\* except ValueError as e: the other exceptions pass through.
caught_value_errors(exc) == exc = "ValueError"

\* except Exception as e: every exception of the try block is caught.
caught(exc) == TRUE

----------------------------------------------------------------------------
Init ==
    /\ build \in Builds
    /\ tables = [t \in Roles |-> <<>>]
    /\ reqs = [r \in Reqs |-> IdleReq]
    /\ models = [r \in Reqs |-> Unfitted]
    /\ succeeded = {}

\* A request arrives: the dependency get_db opens its session, then the
\* handler is called. prior is the signups that have completed by then.
Receive(r) ==
    /\ reqs[r].pc = "idle"
    /\ Arrived(r - 1)
    /\ reqs' = [reqs EXCEPT ![r] =
                  get_db_open([IdleReq EXCEPT !.pc = "handler", !.prior = succeeded])]
    /\ UNCHANGED <<build, tables, models, succeeded>>

\* dealer_login / shopkeeper_login with a valid body: lookup, verification,
\* response. first() returns one of the matching rows.
Login(r, role) ==
    /\ reqs[r].pc = "handler"
    /\ \E email \in Emails, pw \in Passwords :
        LET q == [reqs[r] EXCEPT !.op = "login", !.role = role,
                                 !.email = email, !.password = pw] IN
        \/ /\ Matches(role, email) = {}
           /\ reqs' = [reqs EXCEPT ![r] = Finish(q, "http", InvalidCredentials)]
        \/ \E i \in Matches(role, email) :
              LET row == tables[TableOf(role)][i] IN
              reqs' = [reqs EXCEPT ![r] =
                  IF checkpw_raises(build, pw, row.password_hash)
                  THEN Finish(q, "uncaught", ServerError)
                  ELSE IF ~checkpw(pw, row.password_hash)
                  THEN Finish(q, "http", InvalidCredentials)
                  ELSE Finish(q, "return", Resp(200, "Login successful", row.id, <<>>))]
    /\ UNCHANGED <<build, tables, models, succeeded>>

dealer_login(r) == Login(r, "dealer")

shopkeeper_login(r) == Login(r, "shopkeeper")

\* dealer_signup / shopkeeper_signup with a valid body, first step: the
\* existence check. seen is the row count of the table the check read.
SignupCheck(r, role) ==
    /\ reqs[r].pc = "handler"
    /\ \E email \in Emails, pw \in Passwords, profile \in Profiles :
        LET q == [reqs[r] EXCEPT !.op = "signup", !.role = role, !.email = email,
                                 !.password = pw, !.profile = profile,
                                 !.prior = {}] IN
        reqs' = [reqs EXCEPT ![r] =
            IF exists_by_email(role, email)
            THEN Finish(q, "http", EmailRegistered)
            ELSE [q EXCEPT !.pc = "insert", !.seen = Len(tables[TableOf(role)])]]
    /\ UNCHANGED <<build, tables, models, succeeded>>

\* dealer_signup / shopkeeper_signup, second step: hash, add, commit, refresh.
SignupInsert(r, role) ==
    /\ reqs[r].pc = "insert" /\ reqs[r].role = role
    /\ LET q == reqs[r] IN
       \/ /\ hashpw_raises(build, q.password)
          /\ reqs' = [reqs EXCEPT ![r] = Finish(q, "uncaught", ServerError)]
          /\ UNCHANGED tables
       \/ /\ ~hashpw_raises(build, q.password)
          /\ LET rec == [id |-> next_id(role), email |-> q.email,
                         profile |-> q.profile,
                         password_hash |-> hashpw(q.password, gensalt(role, next_id(role)))] IN
             /\ tables' = db_add(role, rec)
             /\ reqs' = [reqs EXCEPT ![r] =
                   Finish(q, "return", Resp(200, "signup successful", rec.id, <<>>))]
    /\ UNCHANGED <<build, models, succeeded>>

dealer_signup(r) == SignupCheck(r, "dealer") \/ SignupInsert(r, "dealer")

shopkeeper_signup(r) == SignupCheck(r, "shopkeeper") \/ SignupInsert(r, "shopkeeper")

\* The response of the except clause of predict_inventory.
InvalidCsv(exc) ==
    IF caught(exc) THEN Resp(400, exc, 0, <<>>) ELSE ServerError

Raise(q, exc) == Finish(q, IF caught(exc) THEN "http" ELSE "uncaught", InvalidCsv(exc))

\* predict_inventory, first step: read, decode, parse, preprocess, construct
\* the model and train it.
PredictTrain(r) ==
    /\ reqs[r].pc = "handler"
    /\ \E upload \in Uploads :
        LET q == [reqs[r] EXCEPT !.op = "predict", !.upload = upload, !.prior = {}]
            df == read_csv(upload)
            pre == preprocess_data(df)
            h == DemandForecastModel(r) IN
        IF read_csv_raises(build, upload) # ""
        THEN /\ reqs' = [reqs EXCEPT ![r] = Raise(q, read_csv_raises(build, upload))]
             /\ UNCHANGED models
        ELSE IF preprocess_raises(df) # ""
        THEN /\ reqs' = [reqs EXCEPT ![r] = Raise(q, preprocess_raises(df))]
             /\ UNCHANGED models
        ELSE /\ models' = [models EXCEPT ![h] = train(pre.X, pre.y)]
             /\ reqs' = [reqs EXCEPT ![r] =
                           [q EXCEPT !.pc = "predict", !.X = pre.X, !.model = h]]
    /\ UNCHANGED <<build, tables, succeeded>>

\* predict_inventory, second step: predict on the same rows, average, return.
PredictRespond(r) ==
    /\ reqs[r].pc = "predict"
    /\ LET q == reqs[r]
           predictions == predict(models[q.model], q.X)
           avg_prediction == IF predictions.size > 0 THEN predictions.mean ELSE Zero IN
       reqs' = [reqs EXCEPT ![r] =
           IF ~models[q.model].fitted
           THEN Raise(q, "NotFittedError")
           ELSE Finish(q, "return", Resp(200, "", 0, <<avg_prediction>>))]
    /\ UNCHANGED <<build, tables, models, succeeded>>

predict_inventory(r) == PredictTrain(r) \/ PredictRespond(r)

\* The finally block of get_db; then the request is over, and what it held
\* (its body, its table, its model) is dropped.
get_db_finally(r) ==
    /\ reqs[r].pc = "finally"
    /\ LET q == reqs[r] IN
       /\ reqs' = [reqs EXCEPT ![r] =
             IF get_db_closes(q.exit)
             THEN Over([q EXCEPT !.session = "closed", !.closes = @ + 1])
             ELSE Over(q)]
       /\ models' = IF q.op = "predict" /\ q.exit = "return"
                    THEN [models EXCEPT ![q.model] = Unfitted]
                    ELSE models
       /\ succeeded' = IF q.op = "signup" /\ q.resp.status = 200
                       THEN succeeded \cup {Signed(q)}
                       ELSE succeeded
    /\ UNCHANGED <<build, tables>>

Next ==
    \E r \in Reqs :
        \/ Receive(r)
        \/ dealer_login(r)
        \/ shopkeeper_login(r)
        \/ dealer_signup(r)
        \/ shopkeeper_signup(r)
        \/ predict_inventory(r)
        \/ get_db_finally(r)

Spec == Init /\ [][Next]_vars

----------------------------------------------------------------------------
(* Requests one after another: a request arrives only when none is in flight. *)

InFlight == { r \in Reqs : reqs[r].pc \notin {"idle", "done"} }

NextSeq ==
    \E r \in Reqs :
        \/ Receive(r) /\ InFlight = {}
        \/ dealer_login(r)
        \/ shopkeeper_login(r)
        \/ dealer_signup(r)
        \/ shopkeeper_signup(r)
        \/ predict_inventory(r)
        \/ get_db_finally(r)

SpecSeq == Init /\ [][NextSeq]_vars

----------------------------------------------------------------------------
(* The service started on a database that already holds rows: written by an *)
(* earlier run, or by a migration or an import that did not go through      *)
(* hashpw (password_hash is a plain string column).                         *)

StoredRows ==
    { <<>>,
      <<[id |-> 1, email |-> "a@shop.io", profile |-> "profile",
         password_hash |-> hashpw([head |-> "hunter2", tail |-> ""],
                                  gensalt("dealer", 1))]>>,
      <<[id |-> 1, email |-> "a@shop.io", profile |-> "profile",
         password_hash |-> [salt |-> InvalidSalt, key |-> "plaintext"]]>> }

InitStored ==
    /\ build \in Builds
    /\ tables \in [Roles -> StoredRows]
    /\ reqs = [r \in Reqs |-> IdleReq]
    /\ models = [r \in Reqs |-> Unfitted]
    /\ succeeded = {}

SpecStored == InitStored /\ [][Next]_vars

----------------------------------------------------------------------------
(* Properties *)

\* The requests whose handler has produced its response.
Responded(op) == { r \in Reqs : reqs[r].pc = "finally" /\ reqs[r].op = op }

\* Every signup that returned 200: the completed ones and those whose
\* request is not over yet.
AllSigned ==
    succeeded \cup { Signed(reqs[r]) :
                       r \in { t \in Responded("signup") : reqs[t].resp.status = 200 } }

Rows(role) == tables[role]

\* C1: after a signup of a role returned identifier I, a later login on that
\* role with the same email and password returns 200 with I, and one with the
\* same email and another password returns 401 'Invalid credentials'.
LoginAfterSignup ==
    \A r \in Responded("login") :
        \A s \in reqs[r].prior :
            (s.role = reqs[r].role /\ s.email = reqs[r].email) =>
                IF s.password = reqs[r].password
                THEN reqs[r].resp = Resp(200, "Login successful", s.id, <<>>)
                ELSE reqs[r].resp = InvalidCredentials

\* C2: with requests one after another, a signup whose email is in the role's
\* table gets 400 'Email already registered' and writes nothing: every table
\* holds one row per email, one row per signup that returned 200, and the row
\* of an email is the one its first signup wrote.
SequentialSignupsUnique ==
    /\ \A role \in Roles :
          /\ \A i, j \in 1..Len(Rows(role)) :
                Rows(role)[i].email = Rows(role)[j].email => i = j
          /\ Len(Rows(role)) = Cardinality({ s \in AllSigned : s.role = role })
    /\ \A s \in AllSigned :
          /\ s.id \in 1..Len(Rows(s.role))
          /\ Rows(s.role)[s.id].email = s.email
          /\ Rows(s.role)[s.id].id = s.id
          /\ Rows(s.role)[s.id].password_hash.key = s.password.head
    /\ \A r \in Responded("signup") :
          reqs[r].resp.status # 200 =>
              /\ reqs[r].resp \in {EmailRegistered, ServerError}
              /\ (reqs[r].resp = EmailRegistered <=>
                    \E i \in 1..Len(Rows(reqs[r].role)) :
                        Rows(reqs[r].role)[i].email = reqs[r].email)

\* A second signup of an email was answered 400 and its table holds one row.
SequentialSignupsUniqueWitness ==
    \E r \in Responded("signup") :
        /\ reqs[r].resp = EmailRegistered
        /\ \E s \in succeeded : s.role = reqs[r].role /\ s.email = reqs[r].email
        /\ Len(Rows(reqs[r].role)) = 1

\* C3: two rows of a table share an email only through the race: the signup
\* that wrote the later row ran its existence check before the earlier row
\* was written (and two such signups can both return 200).
DuplicateOnlyByRace ==
    \A role \in Roles :
        \A i, j \in 1..Len(Rows(role)) :
            (i < j /\ Rows(role)[i].email = Rows(role)[j].email) =>
                \E s \in AllSigned : s.role = role /\ s.id = j /\ s.seen < i

\* Two signups of one email in one role both returned 200 and the table holds
\* two rows for the email.
DuplicateOnlyByRaceWitness ==
    \E role \in Roles :
        /\ Len(Rows(role)) = 2
        /\ Rows(role)[1].email = Rows(role)[2].email
        /\ \E s1, s2 \in AllSigned :
              /\ s1.role = role /\ s2.role = role
              /\ s1.id = 1 /\ s2.id = 2
              /\ s1.email = s2.email

\* C4: two logins that fail get the same response, whether the email is
\* registered or not.
FailedLoginsAlike ==
    \A r1, r2 \in Responded("login") :
        (reqs[r1].resp.status # 200 /\ reqs[r2].resp.status # 200) =>
            reqs[r1].resp = reqs[r2].resp

\* C5: a login whose looked-up row holds a malformed hash ends in 401
\* 'Invalid credentials'.
MalformedHashIs401 ==
    \A r \in Responded("login") :
        (\E i \in 1..Len(Rows(reqs[r].role)) :
            /\ Rows(reqs[r].role)[i].email = reqs[r].email
            /\ Rows(reqs[r].role)[i].password_hash.salt = InvalidSalt)
        => reqs[r].resp = InvalidCredentials

\* C6: a request holds an open session from its arrival until the finally
\* block of get_db, and once it is over its session has been closed, once,
\* however the handler was left.
SessionReleased ==
    \A r \in Reqs :
        /\ reqs[r].pc = "idle" => (reqs[r].session = "none" /\ reqs[r].closes = 0)
        /\ reqs[r].pc \notin {"idle", "done"} =>
              (reqs[r].session = "open" /\ reqs[r].closes = 0)
        /\ reqs[r].pc = "done" => (reqs[r].session = "closed" /\ reqs[r].closes = 1)
        /\ reqs[r].pc \in {"finally", "done"} =>
              reqs[r].exit \in {"return", "http", "uncaught"}

\* A request left by an uncaught exception and one left by HTTPException are
\* over, their sessions closed.
SessionReleasedWitness ==
    \E r1, r2 \in Reqs :
        /\ reqs[r1].pc = "done" /\ reqs[r1].exit = "uncaught"
        /\ reqs[r1].session = "closed"
        /\ reqs[r2].pc = "done" /\ reqs[r2].exit = "http"
        /\ reqs[r2].session = "closed"

\* The exception the try block of predict_inventory raises on an upload ("" if none).
PipelineRaises(b, upload) ==
    IF read_csv_raises(b, upload) # "" THEN read_csv_raises(b, upload)
    ELSE preprocess_raises(read_csv(upload))

\* C7: a /inventory/predict request ends in 200 with one prediction or in 400
\* with a detail, and in 400 exactly when a step of the try block raised.
PredictOutcomes ==
    \A r \in Responded("predict") :
        LET exc == PipelineRaises(build, reqs[r].upload) IN
        /\ \/ reqs[r].resp.status = 200 /\ Len(reqs[r].resp.predictions) = 1
           \/ reqs[r].resp.status = 400 /\ reqs[r].resp.text # ""
        /\ exc # "" => (reqs[r].resp.status = 400 /\ reqs[r].exit = "http")
        /\ exc = "" => reqs[r].resp.status = 200

\* An upload without the Demand column was answered 400 (KeyError).
PredictOutcomesWitness ==
    \E r \in Responded("predict") :
        /\ reqs[r].upload.utf8
        /\ reqs[r].upload.header = features
        /\ reqs[r].resp = Resp(400, "KeyError", 0, <<>>)

\* C8: an upload of the required header and no data row is answered 200 with
\* the predictions [0].
HeaderOnlyGivesZero ==
    \A r \in Responded("predict") :
        (/\ reqs[r].upload.utf8
         /\ reqs[r].upload.header = Required
         /\ reqs[r].upload.rows = <<>>)
        => reqs[r].resp = Resp(200, "", 0, <<Zero>>)

\* The response of /inventory/predict to an upload when the request runs alone.
Alone(b, upload) ==
    LET exc == PipelineRaises(b, upload)
        pre == preprocess_data(read_csv(upload))
        predictions == predict(train(pre.X, pre.y), pre.X) IN
    IF exc # "" THEN Resp(400, exc, 0, <<>>)
    ELSE Resp(200, "", 0,
              <<IF predictions.size > 0 THEN predictions.mean ELSE Zero>>)

\* C9: the response of a /inventory/predict request is the one its upload
\* gets when run alone, whatever other uploads are processed meanwhile.
PredictIsRequestLocal ==
    \A r \in Responded("predict") :
        reqs[r].resp = Alone(build, reqs[r].upload)

\* Two requests with different uploads are in flight, one has trained its
\* model and not yet predicted, the other has answered 200 with another value.
PredictIsRequestLocalWitness ==
    \E r1, r2 \in Reqs :
        /\ reqs[r1].pc = "predict"
        /\ reqs[r2].pc = "finally" /\ reqs[r2].op = "predict"
        /\ reqs[r2].resp.status = 200
        /\ reqs[r1].upload # reqs[r2].upload
        /\ models[reqs[r1].model].intercept # reqs[r2].resp.predictions[1]

\* A step that changes a table: the insert of a signup of that role, which
\* returns 200 with the new row's identifier, appends one row for the
\* request's email and leaves the other rows and the other table alone.
OneRowAppended(role) ==
    \E r \in Reqs :
        /\ reqs[r].pc = "insert" /\ reqs[r].role = role
        /\ reqs'[r].pc = "finally" /\ reqs'[r].resp.status = 200
        /\ Len(tables'[role]) = Len(tables[role]) + 1
        /\ SubSeq(tables'[role], 1, Len(tables[role])) = tables[role]
        /\ tables'[role][Len(tables'[role])].email = reqs[r].email
        /\ tables'[role][Len(tables'[role])].id = reqs'[r].resp.id
        /\ \A other \in Roles \ {role} : tables'[other] = tables[other]

\* C10: the tables only grow, by one row of a successful signup of the
\* table's role; every other step leaves both tables unchanged, and a login
\* succeeds only for an email signed up on its own role.
TablesOnlyGrow ==
    /\ [][\A role \in Roles :
             tables'[role] # tables[role] => OneRowAppended(role)]_vars
    /\ [](\A r \in Responded("login") :
             reqs[r].resp.status = 200 =>
                 \E s \in AllSigned :
                     s.role = reqs[r].role /\ s.email = reqs[r].email)

\* A dealer signed up, and a shopkeeper login with the dealer's email and
\* password was answered 401 with the shopkeeper table empty.
TablesOnlyGrowWitness ==
    \E r \in Responded("login") :
        /\ reqs[r].role = "shopkeeper"
        /\ reqs[r].resp = InvalidCredentials
        /\ \E s \in succeeded :
              /\ s.role = "dealer" /\ s.email = reqs[r].email
              /\ s.password = reqs[r].password
        /\ Len(tables["dealer"]) = 1
        /\ tables["shopkeeper"] = <<>>

====
